---------------------------- MODULE Spec2Model ----------------------------
(***************************************************************************)
(* A model of botnet/modules/baseresponder.py: the BaseResponder module,   *)
(* its command table, the three-stage message dispatch, the command        *)
(* matcher is_command, respond, the help command and the configuration     *)
(* the module registers.                                                   *)
(*                                                                         *)
(* Python strings are sequences of one-character strings, so that          *)
(* startswith, split and strip are computed the way Python computes them.  *)
(***************************************************************************)
EXTENDS Naturals, Sequences, FiniteSets

VARIABLES
    class_name,      \* self.__class__.__name__
    ignore_help,     \* class attribute ignore_help of the module's class
    attrs,           \* the instance's attributes (dir(self)): name -> kind of value
    _commands,       \* self._commands, the list built by __init__
    config_defaults, \* the default mappings registered by __init__, in order
    config_locations,\* the (namespace, name) pairs registered by __init__, in order
    module_config,   \* config['module_config']: (namespace, name) -> options
    previous_prefix, \* the command_prefix in force before the store last changed
    msg,             \* the message being dispatched by on_message_in
    pc,              \* position inside on_message_in / _dispatch_message
    cmd_name,        \* local variable cmd_name of _dispatch_message
    func,            \* local variable func of _dispatch_message
    err,             \* the exception in flight
    trace,           \* handlers invoked for msg, in order
    notified,        \* what on_exception.send received during this dispatch
    propagated,      \* the exception that reached the caller of on_message_in
    out,             \* messages sent on message_out by the last operation
    call             \* the last direct call of a public method and its result

vars == <<class_name, ignore_help, attrs, _commands, config_defaults,
          config_locations, module_config, previous_prefix, msg, pc, cmd_name,
          func, err, trace, notified, propagated, out, call>>

\* The module instance, as opposed to the dispatch in progress.
module_vars == <<class_name, ignore_help, attrs, _commands, config_defaults,
                 config_locations, module_config, previous_prefix>>

----------------------------------------------------------------------------
(* Bounds of the explored inputs.                                          *)

\* Longest run of prefix characters put in front of the first word.
MaxLead == 2

\* Most command names a help request carries.
MaxNames == 2

----------------------------------------------------------------------------
(* Strings.                                                                *)

\* Python's None, kept apart from every string (strings hold single characters).
NoneV == <<"<None>">>

Min(S) == CHOOSE x \in S : \A y \in S : x <= y
Max(S) == CHOOSE x \in S : \A y \in S : x >= y
Range(s) == {s[i] : i \in 1..Len(s)}

\* All strings over the characters cs of length at most n.
RECURSIVE StringsUpTo(_, _)
StringsUpTo(cs, n) ==
    IF n = 0 THEN {<<>>}
    ELSE LET shorter == StringsUpTo(cs, n - 1)
         IN  shorter \cup {Append(s, c) : s \in shorter, c \in cs}

\* The characters str.split() treats as separators (space and tab stand for all).
Whitespace == {" ", "\t"}

\* str.startswith(p)
StartsWith(s, p) == Len(p) <= Len(s) /\ SubSeq(s, 1, Len(p)) = p

\* str.split(' ')[0]: everything before the first space character.
SplitSpaceFirst(s) ==
    LET idx == {i \in 1..Len(s) : s[i] = " "}
    IN  IF idx = {} THEN s ELSE SubSeq(s, 1, Min(idx) - 1)

\* str.split(): the list is empty when s holds no non-whitespace character.
SplitIsEmpty(s) == \A i \in 1..Len(s) : s[i] \in Whitespace

\* str.split()[0] of a string for which split() is not empty.
SplitFirst(s) ==
    LET b   == Min({i \in 1..Len(s) : s[i] \notin Whitespace})
        ws  == {i \in b..Len(s) : s[i] \in Whitespace}
        e   == IF ws = {} THEN Len(s) ELSE Min(ws) - 1
    IN  SubSeq(s, b, e)

\* str.split(): the whitespace-delimited tokens, in order.
RECURSIVE SplitAll(_)
SplitAll(s) ==
    IF SplitIsEmpty(s) THEN <<>>
    ELSE LET b  == Min({i \in 1..Len(s) : s[i] \notin Whitespace})
             ws == {i \in b..Len(s) : s[i] \in Whitespace}
             e  == IF ws = {} THEN Len(s) ELSE Min(ws) - 1
         IN  <<SubSeq(s, b, e)>> \o SplitAll(SubSeq(s, e + 1, Len(s)))

\* str.strip(chars): drops leading and trailing characters that occur in chars.
Strip(s, chars) ==
    LET keep == {i \in 1..Len(s) : s[i] \notin Range(chars)}
    IN  IF keep = {} THEN <<>> ELSE SubSeq(s, Min(keep), Max(keep))

----------------------------------------------------------------------------
(* Names and values of the program.                                        *)

handler_prefix == <<"c", "o", "m", "m", "a", "n", "d", "_">>

\* The option mappings are functions from option names to values; a
\* prefix is a string.
command_prefix_key == "command_prefix"
base_default_config == [command_prefix |-> <<".">>]
NoOptions == [k \in {} |-> <<>>]

\* Line 60: the location every BaseResponder registers.
botnet == << "b", "o", "t", "n", "e", "t" >>
base_responder == << "b", "a", "s", "e", "_", "r", "e", "s", "p", "o", "n",
                    "d", "e", "r" >>
base_responder_location == << botnet, base_responder >>

help == <<"h", "e", "l", "p">>
echo == <<"e", "c", "h", "o">>
helpme == <<"h", "e", "l", "p", "m", "e">>
me == <<"m", "e">>
prefix_word == <<"p", "r", "e", "f", "i", "x">>
handle_msg_name == <<"h", "a", "n", "d", "l", "e", "_", "m", "s", "g">>

PRIVMSG == "PRIVMSG"
NOTICE == "NOTICE"

BaseResponderName ==
    << "B", "a", "s", "e", "R", "e", "s", "p", "o", "n", "d", "e", "r" >>

\* The grave accent (U+0060), a character no TLA+ string literal can hold.
backtick == "GRAVE"

\* The literals of command_help, lines 163-170.
help_header_module ==
    << "M", "o", "d", "u", "l", "e", " " >>
help_header_for ==
    << ",", " ", "h", "e", "l", "p", " ", "f", "o", "r", " ", backtick >>
help_header_end ==
    << backtick, ":", " " >>
no_help_available ==
    << "N", "o", " ", "h", "e", "l", "p", " ", "a", "v", "a", "i", "l",
       "a", "b", "l", "e", "." >>

\* command_help.__doc__, lines 149-153.
command_help_doc ==
    << "I", "f", " ", "C", "O", "M", "M", "A", "N", "D", " ", "i", "s",
       " ", "s", "p", "e", "c", "i", "f", "i", "e", "d", " ", "s", "e",
       "n", "d", "s", " ", "d", "e", "t", "a", "i", "l", "e", "d", " ",
       "h", "e", "l", "p", " ", "f", "o", "r", " ", "t", "h", "e", " ",
       "c", "o", "m", "m", "a", "n", "d", "s", " ", "i", "n", " ", "a",
       "\n", " ", " ", " ", " ", " ", " ", " ", " ", "p", "r", "i", "v",
       "a", "t", "e", " ", "m", "e", "s", "s", "a", "g", "e", ".", "\n",
       "\n", " ", " ", " ", " ", " ", " ", " ", " ", "S", "y", "n", "t",
       "a", "x", ":", " ", "h", "e", "l", "p", " ", "[", "C", "O", "M",
       "M", "A", "N", "D", " ", ".", ".", ".", "]", "\n", " ", " ", " ",
       " ", " ", " ", " ", " " >>

\* The docstring a str value carries (that of its type), first line.
str_doc ==
    << "s", "t", "r", "(", "o", "b", "j", "e", "c", "t", "=", "'", "'",
       ")", " ", "-", ">", " ", "s", "t", "r" >>

\* The text a subclass's command handler answers with.
hi == << "h", "i" >>


\* An attribute name command_<name>.
Attr(name) == handler_prefix \o name

\* dir(self) lists attribute names in sorted order; these are the names that
\* can occur on an instance, in that order.
AttrOrder ==
    << Attr(echo), Attr(help), Attr(prefix_word), handle_msg_name >>

\* The attributes every BaseResponder has: command_help (line 148) and
\* handle_msg (line 178) are methods of the class.
BaseAttrs ==
    [n \in {Attr(help), handle_msg_name} |-> "method"]

\* The attributes a with the attribute n added (or replaced).
WithAttr(a, n, kind) ==
    [x \in DOMAIN a \cup {n} |-> IF x = n THEN kind ELSE a[x]]

\* The module classes explored: BaseResponder itself; a subclass M that adds
\* a command_echo method, sets ignore_help = False (as module meta does) and
\* names its own config location; and a subclass P with a command_echo
\* method, a class attribute named command_prefix that holds a string, which
\* is no method, a config_namespace without a config_name and a
\* default_config with an option of its own.
ModuleClasses ==
    { [name |-> BaseResponderName, ignore_help |-> TRUE, attrs |-> BaseAttrs,
       config_namespace |-> NoneV, config_name |-> NoneV,
       default_config |-> NoOptions],
      [name |-> <<"M">>, ignore_help |-> FALSE,
       attrs |-> WithAttr(BaseAttrs, Attr(echo), "method"),
       config_namespace |-> botnet, config_name |-> <<"m">>,
       default_config |-> NoOptions],
      [name |-> <<"P">>, ignore_help |-> TRUE,
       attrs |-> WithAttr(WithAttr(BaseAttrs, Attr(echo), "method"),
                          Attr(prefix_word), "value"),
       config_namespace |-> botnet, config_name |-> NoneV,
       default_config |-> [greeting |-> hi]] }

\* The locations of the configuration store that matter to these modules.
Locations == { base_responder_location, << botnet, <<"m">> >> }

\* A store with the options at the shared location and at M's location.
Store(shared, own) ==
    [l \in Locations |-> IF l = base_responder_location THEN shared ELSE own]

\* The configuration stores explored: command_prefix set nowhere, at M's
\* location only, at the shared location only, and at both.
Stores ==
    { Store(NoOptions, NoOptions),
      Store(NoOptions, [command_prefix |-> <<"!">>]),
      Store([command_prefix |-> <<".", "!">>], NoOptions),
      Store([command_prefix |-> <<"!">>], [command_prefix |-> <<>>]) }

\* The option names looked up.
ConfigKeys == { command_prefix_key, "greeting", "nonexistent_key" }

PrefixChars == {".", "!"}
Leads == StringsUpTo(PrefixChars, MaxLead)
Trails == { <<>>, <<".">> }
Words == { <<>>, help, helpme, echo }
Tails == { <<>>, <<" ">> \o me, <<"\t">> \o me }

\* Payloads: a run of prefix characters, a word, a run of dots, the rest;
\* and payloads of whitespace, with leading whitespace and naming an
\* attribute that is no method.
Payloads ==
    { l \o w \o t \o r : l \in Leads, w \in Words, t \in Trails, r \in Tails }
    \cup { <<" ">>, <<"\t">>, <<" ", " ">>,
           <<" ", ".">> \o help, <<" ">> \o help,
           <<".">> \o prefix_word, <<".">> \o me }

\* The names a help request asks about: help itself, a handler of a
\* subclass, a name no module has and the name of an attribute that is no
\* method.
HelpNames == { help, echo, me, prefix_word }

\* ".help" followed by at most n of these names, each after one space.
RECURSIVE HelpPayloads(_)
HelpPayloads(n) ==
    IF n = 0 THEN { <<".">> \o help }
    ELSE LET shorter == HelpPayloads(n - 1)
         IN  shorter \cup { p \o <<" ">> \o w : p \in shorter, w \in HelpNames }

SmallPayloads == { <<>>, <<".">> \o help, <<"#">> \o help, echo }

channel == <<"#", "c">>
bot == <<"b", "o", "t">>
al == <<"a", "l">>

Targets == { channel, bot }
Nicknames == { al, NoneV }

Message(c, ps, nick) == [command |-> c, params |-> ps, nickname |-> nick]

\* Messages of every shape with a few payloads: any verb, no parameter, one
\* parameter, a target and a payload, with and without a nickname.
SmallMessages ==
    { Message(c, ps, n) :
        c \in {PRIVMSG, NOTICE},
        ps \in {<<>>} \cup { <<p>> : p \in SmallPayloads }
                     \cup { <<t, p>> : t \in Targets, p \in SmallPayloads },
        n \in Nicknames }

\* The messages whose payload is varied.
PayloadMessages ==
    { Message(PRIVMSG, <<channel, p>>, al) :
        p \in Payloads \cup HelpPayloads(MaxNames) }
    \cup { Message(PRIVMSG, <<>>, al), Message(PRIVMSG, <<<<".">> \o help>>, al),
           Message(PRIVMSG, <<bot, <<".">> \o help \o <<" ">> \o echo>>, al),
           Message(PRIVMSG, <<channel, <<".">> \o help \o <<" ">> \o echo>>,
                   NoneV) }

Messages == SmallMessages \cup PayloadMessages

NoMsg == Message("", <<>>, NoneV)

----------------------------------------------------------------------------
(* Collaborators outside baseresponder.py.                                 *)

\* helpers.is_channel_name: a name is channel-shaped when it starts with a
\* channel sigil.
is_channel_name(text) ==
    Len(text) > 0 /\ text[1] \in {"#", "&", "+", "!"}

\* ConfigMixin.config_get(key) for a module whose registered defaults,
\* registered locations and store are cfg: the value at the nearest (last
\* registered) location that has the key, else that of the merged defaults
\* (a key keeps the value of the first registered mapping that has it),
\* else a key error.
config_get(cfg, key) ==
    LET at == { i \in 1..Len(cfg.locations) :
                  key \in DOMAIN cfg.store[cfg.locations[i]] }
        df == { i \in 1..Len(cfg.defaults) : key \in DOMAIN cfg.defaults[i] }
    IN  IF at # {} THEN [exc |-> "none",
                         val |-> cfg.store[cfg.locations[Max(at)]][key]]
        ELSE IF df # {} THEN [exc |-> "none",
                              val |-> cfg.defaults[Min(df)][key]]
        ELSE [exc |-> "KeyError", val |-> FALSE]

\* ConfigMixin.config_get('command_prefix').
config_get_command_prefix(cfg) == config_get(cfg, command_prefix_key).val

----------------------------------------------------------------------------
(* BaseResponder.                                                          *)

\* A result of a call: the value returned, or the exception raised.
Returned(v) == [exc |-> "none", val |-> v]
Raised(e) == [exc |-> e, val |-> FALSE]

NoFunc == [name |-> <<>>, kind |-> "None"]

\* Lines 58-59: the default mappings __init__ registers, in order.
registered_defaults(c) == << base_default_config, c.default_config >>

\* registered_locations with lines 60 and 62 in the other order: the
\* module's own location is registered first.
registered_locations_own_first(c) ==
    (IF /\ c.config_namespace \notin { NoneV, <<>> }
        /\ c.config_name \notin { NoneV, <<>> }
     THEN << <<c.config_namespace, c.config_name>> >>
     ELSE << >>)
    \o << base_responder_location >>

\* Lines 60-62: the locations __init__ registers, in order.
registered_locations(c) ==
    << base_responder_location >>
    \o (IF /\ c.config_namespace \notin { NoneV, <<>> }
           /\ c.config_name \notin { NoneV, <<>> }
        THEN << <<c.config_namespace, c.config_name>> >>
        ELSE << >>)

\* _get_commands_from_handlers, lines 64-74.
RECURSIVE CollectCommands(_, _, _)
CollectCommands(names, a, ih) ==
    IF names = <<>> THEN <<>>
    ELSE LET name == Head(names)
             rest == CollectCommands(Tail(names), a, ih)
         IN  IF /\ StartsWith(name, handler_prefix)
                /\ a[name] = "method"
                /\ ~ (ih /\ SubSeq(name, Len(handler_prefix) + 1, Len(name)) = help)
             THEN <<SubSeq(name, Len(handler_prefix) + 1, Len(name))>> \o rest
             ELSE rest

\* _get_commands_from_handlers without the exclusion of line 72.
_get_commands_from_handlers_all(a, ih) ==
    CollectCommands(SelectSeq(AttrOrder, LAMBDA n : n \in DOMAIN a), a, FALSE)

_get_commands_from_handlers(a, ih) ==
    CollectCommands(SelectSeq(AttrOrder, LAMBDA n : n \in DOMAIN a), a, ih)

\* _get_command_handler that takes the first attribute whose name begins
\* with handler_name instead of the attribute of that very name.
_get_command_handler_by_prefix(a, name) ==
    LET handler_name == handler_prefix \o name
        found == SelectSeq(AttrOrder,
                           LAMBDA n : /\ n \in DOMAIN a
                                      /\ StartsWith(n, handler_name)
                                      /\ a[n] # "None")
    IN  IF found # <<>>
        THEN [name |-> found[1], kind |-> a[found[1]]]
        ELSE NoFunc

\* _get_command_handler, lines 91-94: getattr(self, handler_name, None).
_get_command_handler(a, name) ==
    LET handler_name == handler_prefix \o name
    IN  IF handler_name \in DOMAIN a /\ a[handler_name] # "None"
        THEN [name |-> handler_name, kind |-> a[handler_name]]
        ELSE NoFunc

\* is_command with line 113 written "if not command_prefix": an empty
\* override falls back to the configured prefix.
is_command_falsy_prefix(cfg, priv_msg, command_name, command_prefix) ==
    LET cmd == IF command_prefix = NoneV \/ command_prefix = <<>>
               THEN config_get_command_prefix(cfg)
               ELSE command_prefix
    IN  IF priv_msg.params = <<>> THEN Raised("IndexError")
        ELSE LET payload == priv_msg.params[Len(priv_msg.params)]
             IN  IF command_name # NoneV /\ command_name # <<>>
                 THEN IF SplitIsEmpty(payload) THEN Raised("IndexError")
                      ELSE Returned(SplitFirst(payload) = cmd \o command_name)
                 ELSE Returned(StartsWith(payload, cmd))

\* is_command, lines 106-122.
is_command(cfg, priv_msg, command_name, command_prefix) ==
    LET cmd == IF command_prefix = NoneV
               THEN config_get_command_prefix(cfg)
               ELSE command_prefix
    IN  IF priv_msg.params = <<>> THEN Raised("IndexError")
        ELSE LET payload == priv_msg.params[Len(priv_msg.params)]
             IN  IF command_name # NoneV /\ command_name # <<>>
                 THEN IF SplitIsEmpty(payload) THEN Raised("IndexError")
                      ELSE Returned(SplitFirst(payload) = cmd \o command_name)
                 ELSE Returned(StartsWith(payload, cmd))

\* cmd_name_of with a prefix that is kept from one message to the next:
\* the name is stripped with the prefix read before the store changed.
cmd_name_of_kept_prefix(cfg, m) ==
    Strip(SplitSpaceFirst(m.params[Len(m.params)]),
          IF previous_prefix # NoneV THEN previous_prefix
          ELSE config_get_command_prefix(cfg))

\* Lines 85-86 of _dispatch_message: the command name of a command message.
cmd_name_of(cfg, m) ==
    Strip(SplitSpaceFirst(m.params[Len(m.params)]),
          config_get_command_prefix(cfg))

\* respond without the pm test of line 134.
respond_ignoring_pm(priv_msg, text, pm) ==
    IF priv_msg.params = <<>> THEN Raised("IndexError")
    ELSE LET target == IF ~ is_channel_name(priv_msg.params[1])
                       THEN priv_msg.nickname
                       ELSE priv_msg.params[1]
         IN  Returned(Message(PRIVMSG, <<target, text>>, NoneV))

\* respond, lines 124-139: the message sent on message_out.
respond(priv_msg, text, pm) ==
    IF ~pm /\ priv_msg.params = <<>> THEN Raised("IndexError")
    ELSE LET target == IF pm \/ ~ is_channel_name(priv_msg.params[1])
                       THEN priv_msg.nickname
                       ELSE priv_msg.params[1]
         IN  Returned(Message(PRIVMSG, <<target, text>>, NoneV))


\* ' '.join(text.splitlines()): line breaks become spaces, a final line
\* break is dropped.
JoinLines(text) ==
    LET body == IF text # <<>> /\ text[Len(text)] = "\n"
                THEN SubSeq(text, 1, Len(text) - 1) ELSE text
    IN  [i \in 1..Len(body) |-> IF body[i] = "\n" THEN " " ELSE body[i]]

\* re.sub(' +', ' ', text): every run of spaces becomes one space.
CollapseSpaces(text) ==
    LET keep(i) == text[i] # " " \/ i = 1 \/ text[i - 1] # " "
        kept == SelectSeq([i \in 1..Len(text) |-> i], keep)
    IN  [j \in 1..Len(kept) |-> text[kept[j]]]

\* handler.__doc__ : command_help has a docstring, a method of a subclass
\* has none here, a value has that of its type.
DocOf(handler) ==
    IF handler.kind = "value" THEN str_doc
    ELSE IF handler.name = Attr(help) THEN command_help_doc
    ELSE NoneV

\* help_line without the else branch of lines 169-170: a handler without
\* a docstring gets the header alone.
help_line_no_fallback(cls, name, handler) ==
    LET header == help_header_module \o cls \o help_header_for \o name
                  \o help_header_end
        help_text == DocOf(handler)
        res == IF help_text # NoneV /\ help_text # <<>>
               THEN header \o JoinLines(help_text)
               ELSE header
    IN  CollapseSpaces(res)

\* command_help, lines 159-173: the line for one requested name.
help_line(cls, name, handler) ==
    LET header == help_header_module \o cls \o help_header_for \o name
                  \o help_header_end
        help_text == DocOf(handler)
        res == IF help_text # NoneV /\ help_text # <<>>
               THEN header \o JoinLines(help_text)
               ELSE header \o no_help_available
    IN  CollapseSpaces(res)

\* help_responses without the test of lines 157-158: help is answered for
\* like any other name.
RECURSIVE help_responses_with_help(_, _, _, _, _)
help_responses_with_help(cls, a, ih, m, names) ==
    IF names = <<>> THEN <<>>
    ELSE LET name == Head(names)
             rest == help_responses_with_help(cls, a, ih, m, Tail(names))
             handler == _get_command_handler(a, name)
         IN  IF handler.kind # "None"
             THEN <<respond(m, help_line(cls, name, handler), TRUE).val>>
                  \o rest
             ELSE rest

\* command_help, lines 156-176: the messages the loop sends for the
\* requested names, in order.
RECURSIVE help_responses(_, _, _, _, _)
help_responses(cls, a, ih, m, names) ==
    IF names = <<>> THEN <<>>
    ELSE LET name == Head(names)
             rest == help_responses(cls, a, ih, m, Tail(names))
             handler == _get_command_handler(a, name)
         IN  IF ih /\ name = help THEN rest
             ELSE IF handler.kind # "None"
                  THEN <<respond(m, help_line(cls, name, handler), TRUE).val>>
                       \o rest
                  ELSE rest

\* command_help with an else branch for line 154: a request that names no
\* command is answered with the list of the module's commands.
command_help_listing(cls, a, ih, m, names) ==
    IF Len(names) > 0 THEN help_responses(cls, a, ih, m, names)
    ELSE <<respond(m, _get_commands_from_handlers(a, ih), TRUE).val>>

\* command_help, lines 154-176: nothing is sent unless names are given.
command_help(cls, a, ih, m, names) ==
    IF Len(names) > 0 THEN help_responses(cls, a, ih, m, names) ELSE <<>>

\* utils.parse_command([('command_names', '*')]): the words of the payload
\* after the command itself.
parse_command_names(m) == Tail(SplitAll(m.params[Len(m.params)]))

\* The exceptions a handler written in a subclass raises.
HandlerErrors == { "ValueError" }

Idle == pc = "idle"

NoCall == [op |-> "none"]

\* One invocation of a handler: which, under what attribute name, and
\* whether it returned or raised.
TraceEntry(fn, name, outcome) == [fn |-> fn, name |-> name, outcome |-> outcome]

\* The object parse_command hands to the handler it wraps.
ParsedArgs(m) == [command_names |-> parse_command_names(m)]

\* call_arguments with the arguments parsed by the dispatcher: the call
\* func(msg, args).
call_arguments_parsed(m) == << m, ParsedArgs(m) >>

\* Line 89: the arguments of the call func(msg).
call_arguments(m) == << m >>

\* What the body of a handler receives when it is called with passed:
\* command_help wraps itself with parse_command (line 147), which calls it
\* with the message and the arguments parsed from that message; a handler
\* that does not wrap itself receives what was passed.
received_arguments(handler, passed) ==
    IF handler.name = Attr(help)
    THEN << passed[1], ParsedArgs(passed[1]) >>
    ELSE passed

\* One invocation of a command handler by line 89.
CommandEntry(handler, m, outcome) ==
    [fn |-> "command", name |-> handler.name, outcome |-> outcome,
     passed |-> call_arguments(m),
     received |-> received_arguments(handler, call_arguments(m))]

----------------------------------------------------------------------------
(* The state after __init__, lines 53-62.                                  *)

\* What config_get reads: the registrations of the module and the store.
Config ==
    [defaults |-> config_defaults, locations |-> config_locations,
     store |-> module_config]

Init ==
    /\ \E c \in ModuleClasses :
         /\ class_name = c.name
         /\ ignore_help = c.ignore_help
         /\ attrs = c.attrs
         /\ _commands = _get_commands_from_handlers(c.attrs, c.ignore_help)
         /\ config_defaults = registered_defaults(c)
         /\ config_locations = registered_locations(c)
    /\ module_config \in Stores
    /\ previous_prefix = NoneV
    /\ msg = NoMsg
    /\ pc = "idle"
    /\ cmd_name = NoneV
    /\ func = NoFunc
    /\ err = "none"
    /\ trace = <<>>
    /\ notified = <<>>
    /\ propagated = "none"
    /\ out = <<>>
    /\ call = NoCall

----------------------------------------------------------------------------
(* on_message_in and _dispatch_message, lines 76-104.                      *)

\* message_in delivers m: on_message_in enters its try block.
Deliver(m) ==
    /\ Idle
    /\ msg' = m
    /\ pc' = "handle_msg"
    /\ cmd_name' = NoneV
    /\ func' = NoFunc
    /\ err' = "none"
    /\ trace' = <<>>
    /\ notified' = <<>>
    /\ propagated' = "none"
    /\ out' = <<>>
    /\ call' = NoCall
    /\ UNCHANGED module_vars

\* after_handle_msg without the test of line 79.
after_handle_msg_any_verb(m) == "handle_privmsg"

\* Line 79: the stage that follows handle_msg.
after_handle_msg(m) ==
    IF m.command = PRIVMSG THEN "handle_privmsg" ELSE "returned"

\* Line 78: self.handle_msg(msg). The method is a no-op that subclasses
\* override; it returns or raises. Line 79 picks what follows.
HandleMsg ==
    /\ pc = "handle_msg"
    /\ \/ /\ trace' = Append(trace, TraceEntry("handle_msg", <<>>, "returned"))
          /\ pc' = after_handle_msg(msg)
          /\ err' = err
       \/ \E e \in HandlerErrors :
            /\ trace' = Append(trace, TraceEntry("handle_msg", <<>>, "raised"))
            /\ err' = e
            /\ pc' = "except"
    /\ UNCHANGED <<module_vars, msg, cmd_name, func, notified, propagated, out,
                   call>>

\* Line 81: self.handle_privmsg(msg).
HandlePrivmsg ==
    /\ pc = "handle_privmsg"
    /\ \/ /\ trace' = Append(trace,
                            TraceEntry("handle_privmsg", <<>>, "returned"))
          /\ pc' = "is_command"
          /\ err' = err
       \/ \E e \in HandlerErrors :
            /\ trace' = Append(trace,
                              TraceEntry("handle_privmsg", <<>>, "raised"))
            /\ err' = e
            /\ pc' = "except"
    /\ UNCHANGED <<module_vars, msg, cmd_name, func, notified, propagated, out,
                   call>>

\* command_stage without the test of line 88: func is called whatever the
\* lookup returned.
command_stage_call_missing(cfg, a, m) ==
    LET matched == is_command(cfg, m, NoneV, NoneV)
    IN  IF matched.exc # "none"
        THEN [pc |-> "except", err |-> matched.exc, cmd_name |-> NoneV,
              func |-> NoFunc]
        ELSE IF ~ matched.val
        THEN [pc |-> "returned", err |-> "none", cmd_name |-> NoneV,
              func |-> NoFunc]
        ELSE LET name == cmd_name_of(cfg, m)
                 f == _get_command_handler(a, name)
             IN  [pc |-> "call", err |-> "none", cmd_name |-> name, func |-> f]

\* command_stage without the test of line 83: every PRIVMSG goes on to the
\* lookup.
command_stage_unmatched(cfg, a, m) ==
    LET matched == is_command(cfg, m, NoneV, NoneV)
    IN  IF matched.exc # "none"
        THEN [pc |-> "except", err |-> matched.exc, cmd_name |-> NoneV,
              func |-> NoFunc]
        ELSE LET name == cmd_name_of(cfg, m)
                 f == _get_command_handler(a, name)
             IN  [pc |-> IF f # NoFunc THEN "call" ELSE "returned",
                  err |-> "none", cmd_name |-> name, func |-> f]

\* What lines 83-88 leave in cmd_name and func, and where they go next.
command_stage(cfg, a, m) ==
    LET matched == is_command(cfg, m, NoneV, NoneV)
    IN  IF matched.exc # "none"
        THEN [pc |-> "except", err |-> matched.exc, cmd_name |-> NoneV,
              func |-> NoFunc]
        ELSE IF ~ matched.val
        THEN [pc |-> "returned", err |-> "none", cmd_name |-> NoneV,
              func |-> NoFunc]
        ELSE LET name == cmd_name_of(cfg, m)
                 f == _get_command_handler(a, name)
             IN  [pc |-> IF f # NoFunc THEN "call" ELSE "returned",
                  err |-> "none", cmd_name |-> name, func |-> f]

\* Lines 83-88: match the message, extract the command name, look it up.
CommandStage ==
    /\ pc = "is_command"
    /\ LET r == command_stage(Config, attrs, msg)
       IN  /\ pc' = r.pc
           /\ err' = r.err
           /\ cmd_name' = r.cmd_name
           /\ func' = r.func
    /\ UNCHANGED <<module_vars, msg, trace, notified, propagated, out, call>>

\* Line 89: func(msg). What is no method (a string, None) cannot be called;
\* the help handler answers as command_help does; a subclass's handler
\* answers, stays silent or raises.
CallHandler ==
    /\ pc = "call"
    /\ \/ /\ func.kind # "method"
          /\ err' = "TypeError"
          /\ pc' = "except"
          /\ UNCHANGED <<trace, out>>
       \/ /\ func.kind = "method"
          /\ func.name = Attr(help)
          /\ trace' = Append(trace, CommandEntry(func, msg, "returned"))
          /\ out' = command_help(class_name, attrs, ignore_help, msg,
                                 parse_command_names(msg))
          /\ pc' = "returned"
          /\ err' = err
       \/ /\ func.kind = "method"
          /\ func.name # Attr(help)
          /\ \/ /\ trace' = Append(trace, CommandEntry(func, msg, "returned"))
                /\ out' = <<respond(msg, hi, FALSE).val>>
                /\ pc' = "returned"
                /\ err' = err
             \/ /\ trace' = Append(trace, CommandEntry(func, msg, "returned"))
                /\ out' = out
                /\ pc' = "returned"
                /\ err' = err
             \/ \E e \in HandlerErrors :
                  /\ trace' = Append(trace, CommandEntry(func, msg, "raised"))
                  /\ out' = out
                  /\ err' = e
                  /\ pc' = "except"
    /\ UNCHANGED <<module_vars, msg, cmd_name, func, notified, propagated, call>>

\* Lines 102-103: on_exception.send(self, e=e).
Except ==
    /\ pc = "except"
    /\ notified' = Append(notified, [sender |-> "self", e |-> err])
    /\ pc' = "raise"
    /\ UNCHANGED <<module_vars, msg, cmd_name, func, err, trace, propagated, out,
                   call>>

\* An except block that ends without the raise of line 104.
ReraiseSwallowed ==
    /\ pc = "raise"
    /\ pc' = "returned"
    /\ UNCHANGED <<module_vars, msg, cmd_name, func, err, trace, notified,
                   propagated, out, call>>

\* Line 104: raise.
Reraise ==
    /\ pc = "raise"
    /\ propagated' = err
    /\ pc' = "raised"
    /\ UNCHANGED <<module_vars, msg, cmd_name, func, err, trace, notified, out,
                   call>>

----------------------------------------------------------------------------
(* Direct calls of the public methods.                                     *)

\* The command names and prefixes callers pass to is_command.
CommandNameArgs == { NoneV, <<>>, help }
PrefixArgs == { NoneV, <<>>, <<"!">> }

\* A direct call leaves the dispatch variables alone and ends in "called".
Called ==
    /\ pc' = "called"
    /\ UNCHANGED <<msg, cmd_name, func, err, trace, notified, propagated>>

\* Control is back with the caller (the event bus, or the code that made a
\* direct call): what the last operation left behind is observed no longer.
BackToCaller ==
    /\ pc \in { "returned", "raised", "called" }
    /\ pc' = "idle"
    /\ msg' = NoMsg
    /\ cmd_name' = NoneV
    /\ func' = NoFunc
    /\ err' = "none"
    /\ trace' = <<>>
    /\ notified' = <<>>
    /\ propagated' = "none"
    /\ out' = <<>>
    /\ call' = NoCall
    /\ UNCHANGED module_vars

\* is_command(m, n, p), lines 106-122.
IsCommandCall(m, n, p) ==
    /\ Idle
    /\ call' = [op |-> "is_command", msg |-> m, command_name |-> n,
                command_prefix |-> p,
                result |-> is_command(Config, m, n, p)]
    /\ out' = <<>>
    /\ Called
    /\ UNCHANGED module_vars

\* respond(m, text, pm), lines 124-139.
RespondCall(m, text, pm) ==
    /\ Idle
    /\ LET r == respond(m, text, pm)
       IN  /\ call' = [op |-> "respond", msg |-> m, text |-> text, pm |-> pm,
                       result |-> r.exc]
           /\ out' = IF r.exc = "none" THEN <<r.val>> ELSE <<>>
    /\ Called
    /\ UNCHANGED module_vars

\* config_get(key) called on the module.
ConfigGetCall(key) ==
    /\ Idle
    /\ call' = [op |-> "config_get", key |-> key, result |-> config_get(Config, key)]
    /\ out' = <<>>
    /\ Called
    /\ UNCHANGED module_vars

\* get_all_commands, line 145: the list object self._commands itself.
get_all_commands == _commands

\* get_all_commands(), lines 141-145.
GetAllCommandsCall ==
    /\ Idle
    /\ call' = [op |-> "get_all_commands", result |-> get_all_commands]
    /\ out' = <<>>
    /\ Called
    /\ UNCHANGED module_vars

\* The steps of the module when the bus delivers messages of delivered and
\* callers pass messages of matched to is_command.
Step(delivered, matched) ==
    \/ \E m \in delivered : Deliver(m)
    \/ HandleMsg
    \/ HandlePrivmsg
    \/ CommandStage
    \/ CallHandler
    \/ Except
    \/ Reraise
    \/ \E m \in matched, n \in CommandNameArgs, p \in PrefixArgs :
         IsCommandCall(m, n, p)
    \/ \E m \in SmallMessages, text \in {hi, <<>>}, pm \in BOOLEAN :
         RespondCall(m, text, pm)
    \/ GetAllCommandsCall
    \/ \E key \in ConfigKeys : ConfigGetCall(key)
    \/ BackToCaller

Next == Step(Messages, PayloadMessages)

Spec == Init /\ [][Next]_vars

----------------------------------------------------------------------------
(* Callers that change the list get_all_commands() hands out.              *)

\* A caller appends to the list get_all_commands() returned; the list is
\* self._commands itself (line 145 returns it without a copy).
MutateReturnedList ==
    /\ pc = "called"
    /\ call.op = "get_all_commands"
    /\ me \notin Range(_commands)
    /\ _commands' = Append(_commands, me)
    /\ call' = [call EXCEPT !.result = Append(_commands, me)]
    /\ UNCHANGED <<class_name, ignore_help, attrs, config_defaults,
                   config_locations, module_config, previous_prefix, msg, pc,
                   cmd_name, func, err, trace, notified, propagated, out>>

NextMut ==
    \/ Step(SmallMessages, SmallMessages)
    \/ MutateReturnedList

SpecMut == Init /\ [][NextMut]_vars


----------------------------------------------------------------------------
(* The configuration store changes between messages.                       *)

\* The messages delivered while the store changes: help and echo behind
\* every run of prefix characters.
ReloadMessages ==
    { Message(PRIVMSG, <<channel, l \o w>>, al) :
        l \in Leads, w \in { help, echo } }

\* The store is replaced while no message is being dispatched (one message
\* is dispatched to its end before anything else runs).
ConfigReload(store) ==
    /\ Idle
    /\ store # module_config
    /\ module_config' = store
    /\ previous_prefix' = config_get_command_prefix(Config)
    /\ UNCHANGED <<class_name, ignore_help, attrs, _commands, config_defaults,
                   config_locations, msg, pc, cmd_name, func, err, trace,
                   notified, propagated, out, call>>

NextReload ==
    \/ \E m \in ReloadMessages : Deliver(m)
    \/ HandleMsg
    \/ HandlePrivmsg
    \/ CommandStage
    \/ CallHandler
    \/ Except
    \/ Reraise
    \/ BackToCaller
    \/ \E store \in Stores : ConfigReload(store)

SpecReload == Init /\ [][NextReload]_vars

----------------------------------------------------------------------------
(* Vocabulary of the properties.                                           *)

\* The prefix config_get('command_prefix') resolves to.
ConfiguredPrefix == config_get_command_prefix(Config)

\* The payload of a message that has parameters: its last parameter.
Payload(m) == m.params[Len(m.params)]

\* s begins with p: some initial segment of s is p.
BeginsWith(s, p) == \E k \in 0..Len(s) : SubSeq(s, 1, k) = p

\* on_message_in has been entered for msg (and may have finished).
Dispatching == pc \notin { "idle", "called" }

\* on_message_in is over for msg: it returned or an exception left it.
Finished == pc \in { "returned", "raised" }

\* The positions of trace at which fn was invoked.
Invocations(fn) == { i \in 1..Len(trace) : trace[i].fn = fn }

----------------------------------------------------------------------------
(* C1: while a message whose payload does not start with the configured    *)
(* command_prefix is dispatched, no command handler is invoked and none is *)
(* about to be: only handle_msg and, for a PRIVMSG, handle_privmsg run.    *)

\* C1: a payload that does not begin with the prefix invokes no command
\* handler.
C1_NoCommandWithoutPrefix ==
    (/\ Dispatching
     /\ msg.params # <<>>
     /\ ~ BeginsWith(Payload(msg), ConfiguredPrefix))
    => /\ Invocations("command") = {}
       /\ pc # "call"
       /\ func = NoFunc
       /\ \A i \in 1..Len(trace) :
            /\ trace[i].fn \in { "handle_msg", "handle_privmsg" }
            /\ trace[i].fn = "handle_privmsg" => msg.command = PRIVMSG

\* A PRIVMSG "echo" (no prefix) was dispatched to completion by a module
\* that has a command_echo handler: both general handlers ran, nothing else.
C1_Witness ==
    /\ pc = "returned"
    /\ msg.command = PRIVMSG
    /\ msg.params # <<>>
    /\ Payload(msg) = echo
    /\ ConfiguredPrefix = <<".">>
    /\ Attr(echo) \in DOMAIN attrs
    /\ Len(trace) = 2


----------------------------------------------------------------------------
(* C2: the stages of a dispatch run in the order general, protocol,        *)
(* command. As stated, the claim has handle_privmsg invoked if and only if *)
(* the verb is PRIVMSG.                                                    *)

HandleMsgOnceFirst == Invocations("handle_msg") = {1}

PrivmsgOnceSecond == Invocations("handle_privmsg") = {2}

\* A command handler is invoked third, after handle_privmsg has returned,
\* and for a PRIVMSG only.
CommandAfterPrivmsg ==
    \A i \in Invocations("command") :
        /\ i = 3
        /\ trace[2].fn = "handle_privmsg"
        /\ trace[2].outcome = "returned"
        /\ msg.command = PRIVMSG

\* C2 as stated: when a dispatch is over, handle_msg ran once and first,
\* handle_privmsg ran (once, second) exactly when the verb is PRIVMSG, and a
\* command handler ran only after handle_privmsg returned.
C2_Original ==
    Finished =>
        /\ HandleMsgOnceFirst
        /\ PrivmsgOnceSecond <=> msg.command = PRIVMSG
        /\ CommandAfterPrivmsg

\* C2 as amended: handle_msg is invoked exactly once and first;
\* handle_privmsg is invoked (once, second) exactly when the verb is PRIVMSG
\* and handle_msg returned without raising; a command handler is invoked
\* only third, after handle_privmsg returned, and only for a PRIVMSG.
C2_StageOrder ==
    /\ Dispatching =>
        /\ Invocations("handle_msg") \subseteq {1}
        /\ Invocations("handle_privmsg") \subseteq {2}
        /\ CommandAfterPrivmsg
    /\ Finished =>
        /\ HandleMsgOnceFirst
        /\ PrivmsgOnceSecond
             <=> (msg.command = PRIVMSG /\ trace[1].outcome = "returned")

\* A dispatch that went through all three stages is over.
C2_Witness ==
    /\ Finished
    /\ Invocations("command") = {3}
    /\ PrivmsgOnceSecond
    /\ HandleMsgOnceFirst

----------------------------------------------------------------------------
(* C3: when a stage raises, no later stage runs, on_exception is sent the  *)
(* module and that exception exactly once, and then the same exception     *)
(* reaches the caller of on_message_in; it is never swallowed and no stage *)
(* is run again.                                                           *)

\* C3: an exception ends the dispatch, is reported once and reaches the
\* caller.
C3_ExceptionReported ==
    /\ err # "none" => pc \in { "except", "raise", "raised" }
    /\ \A i \in 1..Len(trace) :
         trace[i].outcome = "raised" => (i = Len(trace) /\ err # "none")
    /\ err \in { "IndexError", "TypeError" } => Invocations("command") = {}
    /\ pc = "except" => (notified = <<>> /\ propagated = "none")
    /\ pc \in { "raise", "raised" }
         => notified = << [sender |-> "self", e |-> err] >>
    /\ pc = "raise" => propagated = "none"
    /\ pc = "raised" => (propagated = err /\ err # "none")
    /\ pc = "returned"
         => (err = "none" /\ notified = <<>> /\ propagated = "none")
    /\ \A fn \in { "handle_msg", "handle_privmsg", "command" } :
         Cardinality(Invocations(fn)) <= 1

\* handle_privmsg raised on the command message ".help": the command stage
\* did not run, the exception was reported and reached the caller.
C3_Witness ==
    /\ pc = "raised"
    /\ msg.params # <<>>
    /\ Payload(msg) = <<".">> \o help
    /\ ConfiguredPrefix = <<".">>
    /\ Len(trace) = 2
    /\ trace[2].outcome = "raised"
    /\ propagated = "ValueError"


----------------------------------------------------------------------------
(* C4: is_command(message, commandName) returns a boolean for every        *)
(* payload, the empty and the whitespace-only ones included, and the       *)
(* boolean is true exactly when the first whitespace-delimited token of    *)
(* the payload is the effective prefix followed by commandName.            *)

\* The prefix is_command is to use: the override when one is passed.
EffectivePrefix(override) ==
    IF override # NoneV THEN override ELSE ConfiguredPrefix

\* C4: is_command with a command name returns, for every payload, whether
\* the first token is the effective prefix followed by that name.
C4_Original ==
    (/\ call.op = "is_command"
     /\ call.command_name \notin { NoneV, <<>> }
     /\ call.msg.params # <<>>)
    => /\ call.result.exc = "none"
       /\ call.result.val
            = (/\ ~ SplitIsEmpty(Payload(call.msg))
               /\ SplitFirst(Payload(call.msg))
                    = EffectivePrefix(call.command_prefix) \o call.command_name)

----------------------------------------------------------------------------
(* C5: is_command(message) without a commandName returns true exactly     *)
(* when the payload begins with the effective prefix: the override         *)
(* whenever one is passed (the empty string included), the configured      *)
(* command_prefix otherwise.                                               *)

\* C5: is_command without a command name returns whether the payload
\* begins with the effective prefix.
C5_PrefixMatch ==
    (/\ call.op = "is_command"
     /\ call.command_name = NoneV
     /\ call.msg.params # <<>>)
    => call.result
         = Returned(BeginsWith(Payload(call.msg),
                               EffectivePrefix(call.command_prefix)))

\* is_command(message, command_prefix='!') answered True for a payload that
\* begins with "!" in a module whose configured prefix is ".".
C5_Witness ==
    /\ call.op = "is_command"
    /\ call.command_name = NoneV
    /\ call.command_prefix = <<"!">>
    /\ ConfiguredPrefix = <<".">>
    /\ call.msg.params # <<>>
    /\ call.result = Returned(TRUE)

----------------------------------------------------------------------------
(* C6: the command name the dispatcher looks up is the first               *)
(* whitespace-delimited token of the payload with the characters of the    *)
(* configured prefix stripped from both ends, whatever whitespace follows  *)
(* the token.                                                              *)

\* C6: the name looked up is the first whitespace-delimited token of the
\* payload, stripped of the prefix's characters.
C6_Original ==
    (/\ Dispatching
     /\ cmd_name # NoneV
     /\ ~ SplitIsEmpty(Payload(msg)))
    => cmd_name = Strip(SplitFirst(Payload(msg)), ConfiguredPrefix)

----------------------------------------------------------------------------
(* C7: when a PRIVMSG is a command message and the lookup of the extracted *)
(* name finds no handler, the dispatch ends there: no command handler is   *)
(* invoked, nothing is sent on message_out, on_exception is not notified   *)
(* and no exception reaches the caller.                                    *)

----------------------------------------------------------------------------
(* C8: with ignore_help true, help is not in get_all_commands() although   *)
(* _get_command_handler('help') finds the handler and a command message    *)
(* naming help invokes it; with ignore_help false, help is in              *)
(* get_all_commands().                                                     *)

\* C8: ignore_help hides help from get_all_commands() and from nothing
\* else.
C8_HelpHiddenButInvocable ==
    /\ ignore_help =>
        /\ help \notin Range(get_all_commands)
        /\ _get_command_handler(attrs, help).kind = "method"
    /\ ~ ignore_help => help \in Range(get_all_commands)
    /\ call.op = "get_all_commands"
         => (help \in Range(call.result) <=> ~ ignore_help)
    /\ (Finished /\ cmd_name = help)
         => \E i \in Invocations("command") : trace[i].name = Attr(help)

\* A module that hides help has dispatched a command message naming help
\* and its help handler ran.
C8_Witness ==
    /\ ignore_help
    /\ pc = "returned"
    /\ cmd_name = help
    /\ help \notin Range(get_all_commands)
    /\ Invocations("command") = {3}
    /\ trace[3].name = Attr(help)

----------------------------------------------------------------------------
(* C9: after construction neither the set of names get_all_commands()      *)
(* returns nor the set of command names the dispatcher resolves to a       *)
(* handler ever changes, whatever messages are dispatched, whatever is     *)
(* called and whatever callers do with the list get_all_commands returned. *)

CommandNames == { <<>>, help, helpme, echo, me, prefix_word }

\* The command names the lookup of line 87 resolves to a handler.
Resolvable ==
    { n \in CommandNames : _get_command_handler(attrs, n) # NoFunc }

\* C9: no step changes the names get_all_commands() returns or the names
\* the dispatcher resolves.
C9_Original ==
    [][ /\ Range(get_all_commands)' = Range(get_all_commands)
        /\ Resolvable' = Resolvable ]_vars

----------------------------------------------------------------------------
(* C10: respond(message, text, pm) sends on message_out one PRIVMSG with   *)
(* params [target, text]; the target is message.params[0] exactly when pm  *)
(* is false and message.params[0] is channel-shaped, and message.nickname  *)
(* in every other case.                                                    *)

\* C10: respond sends one PRIVMSG [target, text] to the channel or to the
\* nickname.
C10_RespondTarget ==
    (/\ call.op = "respond"
     /\ call.pm \/ call.msg.params # <<>>)
    => /\ call.result = "none"
       /\ Len(out) = 1
       /\ out[1].command = PRIVMSG
       /\ Len(out[1].params) = 2
       /\ out[1].params[2] = call.text
       /\ out[1].params[1]
            = IF /\ ~ call.pm
                 /\ call.msg.params[1] # <<>>
                 /\ call.msg.params[1][1] \in { "#", "&", "+", "!" }
              THEN call.msg.params[1]
              ELSE call.msg.nickname

\* respond(message, text) to a message sent to the channel #c went to #c.
C10_Witness ==
    /\ call.op = "respond"
    /\ ~ call.pm
    /\ call.msg.params # <<>>
    /\ call.msg.params[1] = channel
    /\ call.msg.nickname = al
    /\ Len(out) = 1
    /\ out[1].params = << channel, call.text >>

----------------------------------------------------------------------------
(* Vocabulary of the help claims.                                          *)

\* The help handler was invoked for msg and returned.
HelpRan ==
    /\ pc = "returned"
    /\ \E i \in Invocations("command") :
         trace[i].name = Attr(help) /\ trace[i].outcome = "returned"

\* The names the help request carries, in request order.
Requested == parse_command_names(msg)

\* The positions of Requested that are due a line: the name has a handler
\* and is not help hidden by ignore_help.
DuePositions ==
    { i \in 1..Len(Requested) :
        /\ ~ (ignore_help /\ Requested[i] = help)
        /\ _get_command_handler(attrs, Requested[i]) # NoFunc }

\* The k-th position that is due a line.
DuePosition(k) ==
    CHOOSE i \in DuePositions :
        Cardinality({ j \in DuePositions : j <= i }) = k

\* The header of a help line with the command name between two q.
QuotedHeader(cls, name, q) ==
    << "M", "o", "d", "u", "l", "e", " " >> \o cls
    \o << ",", " ", "h", "e", "l", "p", " ", "f", "o", "r", " ", q >>
    \o name \o << q, ":", " " >>

\* The help line of a handler without descriptive text, the command name
\* between two q.
NoHelpLine(cls, name, q) ==
    QuotedHeader(cls, name, q)
    \o << "N", "o", " ", "h", "e", "l", "p", " ", "a", "v", "a", "i", "l",
          "a", "b", "l", "e", "." >>

----------------------------------------------------------------------------
(* C11: a help invocation sends exactly one message per requested name,   *)
(* repetitions counted and in request order, that has a handler and is not *)
(* help hidden by ignore_help, and none for any other name; every message  *)
(* goes to the requester's nickname, never to the originating channel.     *)

----------------------------------------------------------------------------
(* C12: a help invocation that carries no command name sends no message,   *)
(* whatever ignore_help is and whatever commands the module has.           *)

\* C12: help without command names sends nothing.
C12_NoNamesNoOutput ==
    (HelpRan /\ Requested = <<>>) => out = <<>>

\* ".help" was answered by the help handler of a module that lists help
\* and has a further command; nothing was sent.
C12_Witness ==
    /\ HelpRan
    /\ Requested = <<>>
    /\ ~ ignore_help
    /\ Len(get_all_commands) = 2
    /\ out = <<>>

----------------------------------------------------------------------------
(* C13: for a handler without descriptive text the help line is exactly    *)
(* "Module <ModuleName>, help for '<name>': No help available.", the name  *)
(* between single quotes.                                                  *)

\* The k-th message of a help invocation is about a handler that has no
\* descriptive text.
NoDocAt(k) ==
    DocOf(_get_command_handler(attrs, Requested[DuePosition(k)]))
        \in { NoneV, <<>> }

----------------------------------------------------------------------------
(* C14: config_get('command_prefix'), as the matcher and the dispatcher    *)
(* use it, resolves to the module-specific value when the module           *)
(* registered its own (config_namespace, config_name) and the key is       *)
(* there, and otherwise to the merged default '.'; the base default is     *)
(* registered before the subclass's default_config; a key that is in no    *)
(* registered location and in no default fails with a key error.           *)

\* The class of the module.
ModuleClass == CHOOSE c \in ModuleClasses : c.name = class_name

\* The class names a config location of its own (both parts).
HasOwnLocation ==
    ModuleClass.config_namespace # NoneV /\ ModuleClass.config_name # NoneV

OwnLocation == << ModuleClass.config_namespace, ModuleClass.config_name >>

\* The location every module reads: ('botnet', 'base_responder').
SharedLocation ==
    << << "b", "o", "t", "n", "e", "t" >>,
       << "b", "a", "s", "e", "_", "r", "e", "s", "p", "o", "n", "d", "e",
          "r" >> >>

\* The store has the option key at the location loc.
HasKey(loc, key) ==
    loc \in DOMAIN module_config /\ key \in DOMAIN module_config[loc]

\* The prefix as stated: the module's own value, else '.'.
StatedPrefix ==
    IF HasOwnLocation /\ HasKey(OwnLocation, "command_prefix")
    THEN module_config[OwnLocation].command_prefix
    ELSE <<".">>

\* The prefix with the shared location of line 60 taken into account.
LayeredPrefix ==
    IF HasOwnLocation /\ HasKey(OwnLocation, "command_prefix")
    THEN module_config[OwnLocation].command_prefix
    ELSE IF HasKey(SharedLocation, "command_prefix")
    THEN module_config[SharedLocation].command_prefix
    ELSE <<".">>

\* config_get('command_prefix') gives p, and p is what the matcher and the
\* dispatcher match and strip with.
ResolvesTo(p) ==
    /\ (call.op = "config_get" /\ call.key = "command_prefix")
         => call.result = Returned(p)
    /\ (/\ call.op = "is_command"
        /\ call.command_prefix = NoneV
        /\ call.command_name = NoneV
        /\ call.msg.params # <<>>)
         => call.result = Returned(BeginsWith(Payload(call.msg), p))
    /\ (Dispatching /\ cmd_name # NoneV)
         => /\ BeginsWith(Payload(msg), p)
            /\ cmd_name = Strip(SplitSpaceFirst(Payload(msg)), p)

\* The base default is the first registered default mapping, the
\* subclass's default_config the second.
BaseDefaultFirst ==
    config_defaults = << [command_prefix |-> <<".">>],
                         ModuleClass.default_config >>

\* A key that is nowhere fails with a key error.
MissingKeyFails ==
    (/\ call.op = "config_get"
     /\ \A i \in 1..Len(config_locations) :
          ~ HasKey(config_locations[i], call.key)
     /\ \A i \in 1..Len(config_defaults) :
          call.key \notin DOMAIN config_defaults[i])
    => call.result.exc = "KeyError"

\* C14 as stated: the prefix is the module's own value or else '.'.
C14_Original ==
    /\ ResolvesTo(StatedPrefix)
    /\ BaseDefaultFirst
    /\ MissingKeyFails

\* C14 as amended: the prefix is the module's own value when the module
\* registered its own location and the key is there, else the value at the
\* shared location ('botnet', 'base_responder') when the key is there, else
\* the merged default '.'; the base default is registered first; a key that
\* is nowhere fails with a key error.
C14_LayeredPrefix ==
    /\ ResolvesTo(LayeredPrefix)
    /\ BaseDefaultFirst
    /\ MissingKeyFails

\* config_get('command_prefix') of a module M whose own location has the
\* empty prefix while the shared location has '!': the module's own value.
C14_Witness ==
    /\ call.op = "config_get"
    /\ call.key = "command_prefix"
    /\ HasOwnLocation
    /\ HasKey(OwnLocation, "command_prefix")
    /\ HasKey(SharedLocation, "command_prefix")
    /\ module_config[OwnLocation] # module_config[SharedLocation]
    /\ call.result = Returned(module_config[OwnLocation].command_prefix)

----------------------------------------------------------------------------
(* C15: whenever the dispatcher finds a handler for a command message it   *)
(* invokes it exactly once with the message and a parsed-arguments object  *)
(* made from that message, whether or not the handler wraps itself with    *)
(* the parsing decorator.                                                  *)

\* The command stage is over and the lookup gave a method.
HandlerFound == Dispatching /\ pc # "call" /\ func.kind = "method"

\* C15 as stated: the handler found is invoked once and receives the
\* message and the arguments parsed from it.
C15_Original ==
    HandlerFound =>
        /\ Cardinality(Invocations("command")) = 1
        /\ \A i \in Invocations("command") :
             /\ trace[i].name = func.name
             /\ trace[i].received = << msg, [command_names |-> Requested] >>

\* C15 as amended: the handler found is invoked once with the message as
\* the only argument; it receives arguments parsed from that message only
\* when it wraps itself with the parsing decorator, as command_help does.
C15_MessageOnly ==
    HandlerFound =>
        /\ Cardinality(Invocations("command")) = 1
        /\ \A i \in Invocations("command") :
             /\ trace[i].name = func.name
             /\ trace[i].passed = << msg >>
             /\ trace[i].name = Attr(help)
                  => trace[i].received
                       = << msg, [command_names |-> Requested] >>
             /\ trace[i].name # Attr(help) => trace[i].received = << msg >>

\* ".echo me" was dispatched to command_echo, which does not wrap itself:
\* it received the message alone.
C15_Witness ==
    /\ pc = "returned"
    /\ msg.params # <<>>
    /\ Payload(msg) = <<".">> \o echo \o <<" ">> \o me
    /\ Invocations("command") = {3}
    /\ trace[3].name = Attr(echo)
    /\ trace[3].received = << msg >>

----------------------------------------------------------------------------
(* C16: the prefix and the command name are computed anew for every       *)
(* message: when the configured command_prefix changes between two         *)
(* messages, the later message is matched and its name stripped with the   *)
(* new prefix only, and match and strip of one dispatch use one prefix.    *)

\* The command stage has run for msg: handle_privmsg returned and the
\* stage is behind.
CommandStageDone ==
    /\ Dispatching
    /\ pc # "is_command"
    /\ Len(trace) >= 2
    /\ trace[2].outcome = "returned"
    /\ msg.params # <<>>

\* C16: whatever the prefix was before, a message counts as a command
\* exactly when its payload begins with the prefix now configured, and its
\* command name is the first word stripped with that same prefix.
C16_PrefixPerMessage ==
    CommandStageDone =>
        /\ cmd_name # NoneV <=> BeginsWith(Payload(msg), ConfiguredPrefix)
        /\ cmd_name # NoneV
             => cmd_name = Strip(SplitSpaceFirst(Payload(msg)), ConfiguredPrefix)

\* The prefix changed from one that "!help" does not begin with to one it
\* begins with; "!help" was then dispatched and the help handler ran.
C16_Witness ==
    /\ CommandStageDone
    /\ previous_prefix # NoneV
    /\ ~ BeginsWith(Payload(msg), previous_prefix)
    /\ BeginsWith(Payload(msg), ConfiguredPrefix)
    /\ Payload(msg) = <<"!">> \o help
    /\ cmd_name = help
    /\ pc = "returned"
    /\ Invocations("command") = {3}

----------------------------------------------------------------------------
(* C17: the dispatcher and the named form of the matcher agree: for a      *)
(* PRIVMSG and a command name n that has a handler, if is_command(message, *)
(* n) is true under the configured prefix then the dispatch invokes the    *)
(* handler of n, and if the dispatch invokes the handler of n then the     *)
(* first token of the payload is the prefix followed by n.                 *)

\* The command names that have a handler.
HandlerNames ==
    { n \in CommandNames : _get_command_handler(attrs, n).kind = "method" }

\* The dispatch of a PRIVMSG is over and both general stages returned: the
\* command stage had its turn.
CommandStageOver ==
    /\ Finished
    /\ msg.command = PRIVMSG
    /\ msg.params # <<>>
    /\ Len(trace) >= 2
    /\ trace[1].outcome = "returned"
    /\ trace[2].outcome = "returned"

\* The dispatch invoked the handler of n.
Invoked(n) == \E i \in Invocations("command") : trace[i].name = Attr(n)

\* When is_command(msg, n) is true, the dispatch invokes the handler of n.
MatchedIsInvoked ==
    CommandStageOver =>
        \A n \in HandlerNames :
            is_command(Config, msg, n, NoneV) = Returned(TRUE) => Invoked(n)

\* When the dispatch invokes the handler of n, the first token of the
\* payload is the prefix followed by n.
InvokedIsMatched ==
    CommandStageOver =>
        \A n \in HandlerNames :
            Invoked(n) => /\ ~ SplitIsEmpty(Payload(msg))
                          /\ SplitFirst(Payload(msg)) = ConfiguredPrefix \o n

\* C17: the named matcher and the dispatcher agree, in both directions.
C17_Original == MatchedIsInvoked /\ InvokedIsMatched

----------------------------------------------------------------------------
(* C18: the dispatch of one message invokes at most one command handler,   *)
(* and it is the attribute named handler_prefix + the extracted command    *)
(* name; no other command_* handler of the module runs for that message.   *)

\* C18: at most one command handler per message, the one named after the
\* extracted command name.
C18_OneHandler ==
    /\ Cardinality(Invocations("command")) <= 1
    /\ \A i \in Invocations("command") :
         /\ cmd_name # NoneV
         /\ trace[i].name
              = << "c", "o", "m", "m", "a", "n", "d", "_" >> \o cmd_name
         /\ trace[i].name \in DOMAIN attrs

\* ".echo" was dispatched by a module that has command_echo and
\* command_help: command_echo ran and command_help did not.
C18_Witness ==
    /\ pc = "returned"
    /\ cmd_name = echo
    /\ Attr(help) \in DOMAIN attrs
    /\ Invocations("command") = {3}
    /\ trace[3].name = Attr(echo)
    /\ ~ Invoked(help)

----------------------------------------------------------------------------
(* C19: the lookup of the dispatch and the table built at construction     *)
(* agree on what a command is: a name resolves through                     *)
(* _get_command_handler exactly when _get_commands_from_handlers collected *)
(* it (a callable attribute command_<name>) or it is help hidden by        *)
(* ignore_help; an attribute command_<name> that is not callable is        *)
(* treated as not found and never invoked.                                 *)

\* The name the dispatch extracted was collected at construction, or is
\* help hidden by ignore_help.
Collected(n) ==
    \/ n \in Range(_commands)
    \/ n = help /\ ignore_help

\* The attribute command_<n> exists and is no method.
NotCallable(n) ==
    /\ (<< "c", "o", "m", "m", "a", "n", "d", "_" >> \o n) \in DOMAIN attrs
    /\ attrs[<< "c", "o", "m", "m", "a", "n", "d", "_" >> \o n] # "method"

\* C19: the name a dispatch looks up resolves exactly when it was
\* collected, and a dispatch that names an attribute that is not callable
\* ends as one that names nothing: silently.
C19_Original ==
    (Dispatching /\ cmd_name # NoneV)
    => /\ func # NoFunc <=> Collected(cmd_name)
       /\ NotCallable(cmd_name)
            => /\ func = NoFunc
               /\ pc = "returned"
               /\ err = "none"
               /\ notified = <<>>

=============================================================================
